---- MODULE Spec2Model ----
(***************************************************************************)
(* Model of the rule-based ride-share message extraction of riderOP:       *)
(*   whatsappData/classify_and_place.py  (gazetteer, place pair, category) *)
(*   whatsappData/get_date_time.py       (ride date / time)                *)
(*   whatsappData/offering_seeking.py    (ride type)                       *)
(* A Python str is a sequence of one-character strings, so that strip,     *)
(* lower, split, re.sub and re.search are computed and not assumed.        *)
(***************************************************************************)
EXTENDS Integers, Sequences, FiniteSets, TLC

VARIABLES
    lines,        \* the lines of places.txt, as iterating the file yields them
    li,           \* load_places: number of lines consumed by its for loop
    place_map,    \* load_places: the dict, as a sequence of [key, val] in insertion order
    pc,           \* position in the pipeline
    message,      \* the row's message
    wa_date,      \* the row's wa_date
    pair,         \* what extract_first_pair returned for the row
    category, origin, destination,  \* columns written by classify_messages
    ride_date, ride_time,           \* columns written by extract_datetime_for_rides_only
    ride_type                       \* column written by classify_ride_type_for_rides

vars == <<lines, li, place_map, pc, message, wa_date, pair, category, origin,
          destination, ride_date, ride_time, ride_type>>

\* ---------------------------------------------------------------- bounds
\* longest places.txt (in lines) that SpecLoad reads
MaxLines == 3
\* longest message (in vocabulary fragments) that Spec classifies
MaxWords == 5
\* longest message (in phrases) that SpecDate and SpecIntent read
MaxPhrases == 2

\* ---------------------------------------------------------------- Python values
\* None: a one-element sequence that is no str (its element is not one character)
None == <<"<None>">>

\* Python truthiness of an optional str: None and "" are falsy
Truthy(v) == v # None /\ v # <<>>

Min(S) == CHOOSE m \in S : \A n \in S : m <= n

\* ---------------------------------------------------------------- characters
UpperCase == <<"A","B","C","D","E","F","G","H","I","J","K","L","M",
               "N","O","P","Q","R","S","T","U","V","W","X","Y","Z">>
LowerCase == <<"a","b","c","d","e","f","g","h","i","j","k","l","m",
               "n","o","p","q","r","s","t","u","v","w","x","y","z">>

IsUpper(c) == \E i \in 1..Len(UpperCase) : UpperCase[i] = c
IsLower(c) == \E i \in 1..Len(LowerCase) : LowerCase[i] = c
IsDigit(c) == c \in {"0","1","2","3","4","5","6","7","8","9"}
\* \s
IsSpace(c) == c \in {" ", "\t", "\n", "\r", "\f"}
\* \w
IsWordChar(c) == IsUpper(c) \/ IsLower(c) \/ IsDigit(c) \/ c = "_"

LowerChar(c) ==
    IF IsUpper(c) THEN LowerCase[CHOOSE i \in 1..Len(UpperCase) : UpperCase[i] = c] ELSE c

\* str.lower()
lower(s) == [i \in 1..Len(s) |-> LowerChar(s[i])]

\* str.strip()
strip(s) ==
    LET keep == {i \in 1..Len(s) : ~IsSpace(s[i])}
    IN  IF keep = {} THEN <<>>
        ELSE SubSeq(s, Min(keep), CHOOSE m \in keep : \A n \in keep : n <= m)

\* str.split(sep) for a one-character sep: every sep cuts, empty fields are kept
RECURSIVE split_on(_, _)
split_on(s, sep) ==
    LET cuts == {i \in 1..Len(s) : s[i] = sep}
    IN  IF cuts = {} THEN <<s>>
        ELSE <<SubSeq(s, 1, Min(cuts) - 1)>> \o split_on(SubSeq(s, Min(cuts) + 1, Len(s)), sep)

\* str.split(): the maximal runs of non-whitespace characters, in order
RECURSIVE split(_)
split(s) ==
    LET keep == {i \in 1..Len(s) : ~IsSpace(s[i])}
    IN  IF keep = {} THEN <<>>
        ELSE LET b == Min(keep)
                 stops == {i \in b..Len(s) : IsSpace(s[i])}
                 e == IF stops = {} THEN Len(s) ELSE Min(stops) - 1
             IN  <<SubSeq(s, b, e)>> \o split(SubSeq(s, e + 1, Len(s)))

\* " ".join(ws)
RECURSIVE join(_)
join(ws) ==
    IF ws = <<>> THEN <<>>
    ELSE IF Len(ws) = 1 THEN ws[1]
    ELSE ws[1] \o <<" ">> \o join(Tail(ws))

\* ws[a:b] for 0 <= a (Python slice, clamped at the end of the list)
slice(ws, a, b) == SubSeq(ws, a + 1, IF b <= Len(ws) THEN b ELSE Len(ws))

\* ---------------------------------------------------------------- re
\* \b at offset pos of s (between s[pos] and s[pos+1], 1-based)
Boundary(s, pos) ==
    LET before == pos >= 1 /\ IsWordChar(s[pos])
        after == pos < Len(s) /\ IsWordChar(s[pos + 1])
    IN  before # after

\* bool(re.search(rf"\b{re.escape(p)}\b", s))
word_search(p, s) ==
    \E k \in 0..(Len(s) - Len(p)) :
        /\ SubSeq(s, k + 1, k + Len(p)) = p
        /\ Boundary(s, k)
        /\ Boundary(s, k + Len(p))

\* re.sub(r"[^a-zA-Z0-9\s]", "", text).lower()
normalize_text(text) ==
    lower(SelectSeq(text, LAMBDA c : IsUpper(c) \/ IsLower(c) \/ IsDigit(c) \/ IsSpace(c)))

\* ---------------------------------------------------------------- load_places
\* place_map[key]
Lookup(map, key) ==
    IF \E i \in 1..Len(map) : map[i].key = key
    THEN map[CHOOSE i \in 1..Len(map) : map[i].key = key].val
    ELSE None

\* place_map[synonym] = canonical, the key first in order if it was there (a faulty variant)
SetItemKeepFirst(map, synonym, canonical) ==
    IF \E i \in 1..Len(map) : map[i].key = synonym
    THEN map
    ELSE Append(map, [key |-> synonym, val |-> canonical])

\* place_map[synonym] = canonical: a key keeps its place in the order of the dict
SetItem(map, synonym, canonical) ==
    IF \E i \in 1..Len(map) : map[i].key = synonym
    THEN [i \in 1..Len(map) |->
            IF map[i].key = synonym THEN [key |-> synonym, val |-> canonical] ELSE map[i]]
    ELSE Append(map, [key |-> synonym, val |-> canonical])

\* parts = [p.strip().lower() for p in line.strip().split("=")]
Parts(line) ==
    LET raw == split_on(strip(line), "=")
    IN  [i \in 1..Len(raw) |-> lower(strip(raw[i]))]

\* for synonym in parts: place_map[synonym] = canonical
RECURSIVE AddSynonyms(_, _, _)
AddSynonyms(map, parts, canonical) ==
    IF parts = <<>> THEN map
    ELSE AddSynonyms(SetItem(map, parts[1], canonical), Tail(parts), canonical)

\* the body of the for loop of load_places, for one line
load_line(map, line) == AddSynonyms(map, Parts(line), Parts(line)[1])

\* load_places on a whole file
RECURSIVE load_places(_)
load_places(ls) ==
    IF ls = <<>> THEN <<>>
    ELSE load_line(load_places(SubSeq(ls, 1, Len(ls) - 1)), ls[Len(ls)])

\* ---------------------------------------------------------------- places in a text
\* for place in place_map: if re.search(...): found_places.add(place_map[place])
count_unique_places(text, map) ==
    {map[i].val : i \in {j \in 1..Len(map) : word_search(map[j].key, text)}}

\* next((place_map[p] for p in place_map if re.search(rf"\b{re.escape(p)}\b", s)), None)
first_match(map, s) ==
    LET hits == {i \in 1..Len(map) : word_search(map[i].key, s)}
    IN  IF hits = {} THEN None ELSE map[Min(hits)].val

\* ---------------------------------------------------------------- extract_first_pair
FROM == <<"f", "r", "o", "m">>
TO == <<"t", "o">>
Connectors == {<<"t", "o">>, <<"-">>, <<"→">>}
HomeBase == <<"s", "t", "a", "t", "e", " ", "c", "o", "l", "l", "e", "g", "e", "*">>

NoPair == [origin |-> None, destination |-> None, cue |-> "none", at |-> 0]

\* [" ".join(words[a:a+k+extra]) for k in range(1, 4) if a+k+extra <= len(words)]
Windows(words, a, extra) ==
    LET ks == {k \in 1..3 : a + k + extra <= Len(words)}
    IN  [k \in 1..Cardinality(ks) |-> join(slice(words, a, a + k + extra))]

\* [" ".join(words[i-k:i+1]) for k in range(1, 4) if i-k >= 0]
BackWindows(words, i) ==
    LET ks == {k \in 1..3 : i - k >= 0}
    IN  [k \in 1..Cardinality(ks) |-> join(slice(words, i - k, i + 1))]

\* the branch taken at position i (0-based), lines 33-47
Cue(words, i) ==
    IF words[i + 1] = FROM /\ i + 2 < Len(words) /\ words[i + 3] = TO THEN "from_to"
    ELSE IF words[i + 1] = FROM THEN "from"
    ELSE IF words[i + 2] \in Connectors THEN "connector"
    ELSE "continue"

\* src_candidates of the branch taken at i
SrcCandidates(words, i) ==
    CASE Cue(words, i) = "from_to" -> Windows(words, i + 1, 1)
      [] Cue(words, i) = "from" -> Windows(words, i + 1, 0)
      [] Cue(words, i) = "connector" -> BackWindows(words, i)
      [] OTHER -> <<>>

\* dst_candidates of the branch taken at i
DstCandidates(words, i) ==
    CASE Cue(words, i) = "from_to" -> Windows(words, i + 3, 0)
      [] Cue(words, i) = "from" ->
            LET to_idx == i + 1 + Len(split(SrcCandidates(words, i)[1]))
            IN  IF to_idx < Len(words) /\ words[to_idx + 1] = TO
                THEN Windows(words, to_idx + 1, 0)
                ELSE <<>>
      [] Cue(words, i) = "connector" -> Windows(words, i + 2, 0)
      [] OTHER -> <<>>

\* lines 49-54: the first (src, dst), src outermost, with two distinct truthy matches
CandidatePairs(words, map, i) ==
    LET srcs == SrcCandidates(words, i)
        dsts == DstCandidates(words, i)
    IN  {p \in (1..Len(srcs)) \X (1..Len(dsts)) :
            /\ Truthy(first_match(map, srcs[p[1]]))
            /\ Truthy(first_match(map, dsts[p[2]]))
            /\ first_match(map, srcs[p[1]]) # first_match(map, dsts[p[2]])}

FirstPair(words, map, i) ==
    LET ps == CandidatePairs(words, map, i)
    IN  CHOOSE p \in ps : \A q \in ps : p[1] < q[1] \/ (p[1] = q[1] /\ p[2] <= q[2])

\* lines 57-62: the destinations of the bare "to" at i
BareToHits(words, map, i) ==
    LET dsts == Windows(words, i + 1, 0)
    IN  IF words[i + 1] = TO
        THEN {first_match(map, dsts[k]) : k \in {j \in 1..Len(dsts) : Truthy(first_match(map, dsts[j]))}}
        ELSE {}

BareToFirst(words, map, i) ==
    LET dsts == Windows(words, i + 1, 0)
    IN  first_match(map, dsts[Min({j \in 1..Len(dsts) : Truthy(first_match(map, dsts[j]))})])

\* the for loop of lines 32-62 from position i on
RECURSIVE ScanFrom(_, _, _)
ScanFrom(words, map, i) ==
    IF i >= Len(words) - 2 THEN NoPair
    ELSE IF Cue(words, i) = "continue" THEN ScanFrom(words, map, i + 1)
    ELSE IF CandidatePairs(words, map, i) # {}
    THEN LET p == FirstPair(words, map, i)
         IN  [origin |-> first_match(map, SrcCandidates(words, i)[p[1]]),
              destination |-> first_match(map, DstCandidates(words, i)[p[2]]),
              cue |-> Cue(words, i), at |-> i]
    ELSE IF BareToHits(words, map, i) # {}
    THEN [origin |-> HomeBase, destination |-> BareToFirst(words, map, i),
          cue |-> "bare_to", at |-> i]
    ELSE ScanFrom(words, map, i + 1)

\* words = re.sub(r"[^a-zA-Z0-9\s]", "", text.lower()).split()
Words(text) ==
    split(SelectSeq(lower(text),
                    LAMBDA c : IsUpper(c) \/ IsLower(c) \/ IsDigit(c) \/ IsSpace(c)))

extract_first_pair(text, map) == ScanFrom(Words(text), map, 0)

\* ---------------------------------------------------------------- classify_messages
RIDE == <<"r", "i", "d", "e">>
GENERAL == <<"g", "e", "n", "e", "r", "a", "l">>

\* lines 83-98 with the test of line 95 on origin alone (a faulty variant)
classify_row_any_category(p, has_to, has_from, found_places) ==
    LET by_pair == Truthy(p.origin) /\ Truthy(p.destination)
        by_two == has_to /\ has_from /\ Cardinality(found_places) >= 2
        by_to == has_to /\ ~has_from /\ Cardinality(found_places) >= 1
        found == IF ~by_pair /\ ~by_two /\ by_to
                 THEN found_places \cup {HomeBase} ELSE found_places
        cat == IF by_pair \/ by_two \/ (by_to /\ Cardinality(found) >= 2)
               THEN RIDE ELSE GENERAL
    IN  IF ~Truthy(p.origin) /\ Cardinality(found) >= 2
        THEN {[category |-> cat, origin |-> o, destination |-> d] :
                <<o, d>> \in {q \in found \X found : q[1] # q[2]}}
        ELSE {[category |-> cat, origin |-> p.origin, destination |-> p.destination]}

\* lines 77-98 for one message: every (category, origin, destination) the loop body
\* can append; list(found_places) lists a set, in an order the code does not fix
classify_row(p, has_to, has_from, found_places) ==
    LET by_pair == Truthy(p.origin) /\ Truthy(p.destination)
        by_two == has_to /\ has_from /\ Cardinality(found_places) >= 2
        by_to == has_to /\ ~has_from /\ Cardinality(found_places) >= 1
        found == IF ~by_pair /\ ~by_two /\ by_to
                 THEN found_places \cup {HomeBase} ELSE found_places
        cat == IF by_pair \/ by_two \/ (by_to /\ Cardinality(found) >= 2)
               THEN RIDE ELSE GENERAL
    IN  IF ~Truthy(p.origin) /\ cat = RIDE /\ Cardinality(found) >= 2
        THEN {[category |-> cat, origin |-> o, destination |-> d] :
                <<o, d>> \in {q \in found \X found : q[1] # q[2]}}
        ELSE {[category |-> cat, origin |-> p.origin, destination |-> p.destination]}

classify_text(p, text, map) ==
    classify_row(p, word_search(TO, text), word_search(FROM, text),
                 count_unique_places(text, map))

classify_messages(msg, map) ==
    classify_text(extract_first_pair(msg, map), normalize_text(msg), map)

\* ---------------------------------------------------------------- classify_ride_type
offer_keywords ==
    << <<"o", "f", "f", "e", "r", "i", "n", "g">>, <<"a", "v", "a", "i", "l", "a", "b", "l", "e">>, <<"c", "a", "n", " ", "g", "i", "v", "e">>, <<"h", "a", "v", "e", " ", "s", "p", "a", "c", "e">>, <<"d", "r", "i", "v", "i", "n", "g", " ", "t", "o">>, <<"r", "i", "d", "e", " ", "f", "r", "o", "m">> >>
seek_keywords ==
    << <<"a", "n", "y", "o", "n", "e", " ", "g", "o", "i", "n", "g">>, <<"l", "o", "o", "k", "i", "n", "g", " ", "f", "o", "r">>, <<"n", "e", "e", "d", " ", "a", " ", "r", "i", "d", "e">>, <<"a", "n", "y", "o", "n", "e", " ", "d", "r", "i", "v", "i", "n", "g">>, <<"w", "a", "n", "t", " ", "t", "o", " ", "j", "o", "i", "n">>,
       <<"r", "i", "d", "e", " ", "t", "o">> >>

OFFERING == <<"o", "f", "f", "e", "r", "i", "n", "g">>
SEEKING == <<"s", "e", "e", "k", "i", "n", "g">>
UNKNOWN == <<"u", "n", "k", "n", "o", "w", "n">>

\* sub in s
contains(s, sub) ==
    \E k \in 0..(Len(s) - Len(sub)) : SubSeq(s, k + 1, k + Len(sub)) = sub

\* for phrase in keywords: if phrase in msg_lower
AnyPhraseIn(keywords, msg_lower) ==
    \E i \in 1..Len(keywords) : contains(msg_lower, keywords[i])

\* the two loops in the other order (a faulty variant)
classify_ride_type_seek_first(msg) ==
    IF AnyPhraseIn(seek_keywords, lower(msg)) THEN SEEKING
    ELSE IF AnyPhraseIn(offer_keywords, lower(msg)) THEN OFFERING
    ELSE UNKNOWN

classify_ride_type(msg) ==
    IF AnyPhraseIn(offer_keywords, lower(msg)) THEN OFFERING
    ELSE IF AnyPhraseIn(seek_keywords, lower(msg)) THEN SEEKING
    ELSE UNKNOWN

\* ---------------------------------------------------------------- re patterns
\* A pattern is a tree of nodes; Match lists, in the order the backtracking matcher
\* of re tries them, the ways a node matches s at offset pos (0-based), each with
\* the offset after the match and the groups captured so far.
Lit(cs) == [t |-> "lit", s |-> cs]
\* a character class repeated greedily lo..hi times (hi = -1: no upper limit)
Rep(class, lo, hi) == [t |-> "rep", cs |-> class, lo |-> lo, hi |-> hi]
Alt(nodes) == [t |-> "alt", items |-> nodes]
Cat(nodes) == [t |-> "cat", items |-> nodes]
\* (?:item)?
Opt(node) == [t |-> "opt", item |-> node]
\* the n-th capturing group
Grp(n, node) == [t |-> "grp", n |-> n, item |-> node]
\* \b
WordB == [t |-> "wb"]

Digits == {"0","1","2","3","4","5","6","7","8","9"}
Spaces == {" ", "\t", "\n", "\r", "\f"}

\* how many characters of class cs follow offset pos, at most hi of them
Run(s, pos, cs, hi) ==
    LET most == IF hi = -1 \/ pos + hi > Len(s) THEN Len(s) - pos ELSE hi
        stop == {m \in 0..most : m = most \/ s[pos + m + 1] \notin cs}
    IN  Min(stop)

RECURSIVE Match(_, _, _, _)
RECURSIVE MatchCat(_, _, _, _, _)
RECURSIVE MatchAlt(_, _, _, _, _)
RECURSIVE MatchRest(_, _, _, _, _)

Match(n, s, pos, caps) ==
    CASE n.t = "lit" ->
            IF pos + Len(n.s) <= Len(s) /\ SubSeq(s, pos + 1, pos + Len(n.s)) = n.s
            THEN <<[pos |-> pos + Len(n.s), caps |-> caps]>>
            ELSE <<>>
      [] n.t = "rep" ->
            LET run == Run(s, pos, n.cs, n.hi)
            IN  IF run < n.lo THEN <<>>
                ELSE [j \in 1..(run - n.lo + 1) |-> [pos |-> pos + run - j + 1, caps |-> caps]]
      [] n.t = "wb" ->
            IF Boundary(s, pos) THEN <<[pos |-> pos, caps |-> caps]>> ELSE <<>>
      [] n.t = "opt" ->
            Match(n.item, s, pos, caps) \o <<[pos |-> pos, caps |-> caps]>>
      [] n.t = "grp" ->
            LET rs == Match(n.item, s, pos, caps)
            IN  [j \in 1..Len(rs) |->
                    [pos |-> rs[j].pos,
                     caps |-> [rs[j].caps EXCEPT ![n.n] = SubSeq(s, pos + 1, rs[j].pos)]]]
      [] n.t = "alt" -> MatchAlt(n.items, 1, s, pos, caps)
      [] n.t = "cat" -> MatchCat(n.items, 1, s, pos, caps)

\* the alternatives from the k-th on, in order
MatchAlt(items, k, s, pos, caps) ==
    IF k > Len(items) THEN <<>>
    ELSE Match(items[k], s, pos, caps) \o MatchAlt(items, k + 1, s, pos, caps)

\* the items from the k-th on, one after the other
MatchCat(items, k, s, pos, caps) ==
    IF k > Len(items) THEN <<[pos |-> pos, caps |-> caps]>>
    ELSE MatchRest(Match(items[k], s, pos, caps), 1, items, k, s)

\* the rest of a concatenation after each way rs[j..] its k-th item matched
MatchRest(rs, j, items, k, s) ==
    IF j > Len(rs) THEN <<>>
    ELSE MatchCat(items, k + 1, s, rs[j].pos, rs[j].caps)
            \o MatchRest(rs, j + 1, items, k, s)

NoGroups(n) == [g \in 1..n |-> None]

\* re.match(pat, s): the first way pat matches at offset 0, <<>> if none
re_match(pat, s) ==
    LET rs == Match(pat.re, s, 0, NoGroups(pat.groups))
    IN  IF rs = <<>> THEN <<>> ELSE <<rs[1]>>

\* re.search(pat, s) from offset p on: the first way pat matches at the leftmost
\* offset, <<>> if none
RECURSIVE SearchFrom(_, _, _)
SearchFrom(pat, s, p) ==
    IF p > Len(s) THEN <<>>
    ELSE LET rs == Match(pat.re, s, p, NoGroups(pat.groups))
         IN  IF rs = <<>> THEN SearchFrom(pat, s, p + 1) ELSE <<rs[1]>>

re_search(pat, s) == SearchFrom(pat, s, 0)

\* list(filter(None, match.groups()))
FilterNone(groups) == SelectSeq(groups, Truthy)

\* ":".join(ws)
RECURSIVE join_colon(_)
join_colon(ws) ==
    IF ws = <<>> THEN <<>>
    ELSE IF Len(ws) = 1 THEN ws[1]
    ELSE ws[1] \o <<":">> \o join_colon(Tail(ws))

\* ---------------------------------------------------------------- get_date_time.py patterns
FullMonths ==
    Alt(<< Lit(<<"j", "a", "n", "u", "a", "r", "y">>), Lit(<<"f", "e", "b", "r", "u", "a", "r", "y">>), Lit(<<"m", "a", "r", "c", "h">>), Lit(<<"a", "p", "r", "i", "l">>), Lit(<<"m", "a", "y">>),
           Lit(<<"j", "u", "n", "e">>), Lit(<<"j", "u", "l", "y">>), Lit(<<"a", "u", "g", "u", "s", "t">>), Lit(<<"s", "e", "p", "t", "e", "m", "b", "e", "r">>), Lit(<<"o", "c", "t", "o", "b", "e", "r">>),
           Lit(<<"n", "o", "v", "e", "m", "b", "e", "r">>), Lit(<<"d", "e", "c", "e", "m", "b", "e", "r">>) >>)
AbbrMonths ==
    Alt(<< Lit(<<"j", "a", "n">>), Lit(<<"f", "e", "b">>), Lit(<<"m", "a", "r">>), Lit(<<"a", "p", "r">>), Lit(<<"m", "a", "y">>), Lit(<<"j", "u", "n">>),
           Lit(<<"j", "u", "l">>), Lit(<<"a", "u", "g">>), Lit(<<"s", "e", "p">>), Lit(<<"o", "c", "t">>), Lit(<<"n", "o", "v">>), Lit(<<"d", "e", "c">>) >>)
AllMonths == Alt(FullMonths.items \o AbbrMonths.items)

\* (?:on\s)?
OptOn == Opt(Cat(<< Lit(<<"o", "n">>), Rep(Spaces, 1, 1) >>))
\* (?:st|nd|rd|th)
Ordinal == Alt(<< Lit(<<"s", "t">>), Lit(<<"n", "d">>), Lit(<<"r", "d">>), Lit(<<"t", "h">>) >>)
\* \d{1,2}
Day == Rep(Digits, 1, 2)
\* \s*
Ws == Rep(Spaces, 0, -1)
\* (am|pm)
AmPm == Alt(<< Lit(<<"a", "m">>), Lit(<<"p", "m">>) >>)
\* (?:at|before|around|by)?
OptQualifier == Opt(Alt(<< Lit(<<"a", "t">>), Lit(<<"b", "e", "f", "o", "r", "e">>), Lit(<<"a", "r", "o", "u", "n", "d">>), Lit(<<"b", "y">>) >>))

date_patterns ==
    << [groups |-> 2, re |-> Cat(<< WordB, OptOn, Grp(1, Day), Ordinal,
                                   Opt(Cat(<< Rep(Spaces, 1, -1), Lit(<<"o", "f">>) >>)), Ws,
                                   Opt(Grp(2, FullMonths)), WordB >>)],
       [groups |-> 2, re |-> Cat(<< WordB, OptOn, Grp(1, FullMonths), Ws, Grp(2, Day),
                                   Opt(Ordinal), WordB >>)],
       [groups |-> 2, re |-> Cat(<< WordB, OptOn, Grp(1, Day), Opt(Ordinal), Ws,
                                   Opt(Grp(2, AbbrMonths)), WordB >>)],
       [groups |-> 2, re |-> Cat(<< WordB, OptOn, Grp(1, AbbrMonths), Ws, Grp(2, Day),
                                   Opt(Ordinal), WordB >>)],
       [groups |-> 3, re |-> Cat(<< WordB, Grp(1, Day), Opt(Ordinal), Ws,
                                   Alt(<< Lit(<<"-">>), Lit(<<"t", "o">>) >>), Ws, Grp(2, Day),
                                   Opt(Ordinal), Ws, Opt(Grp(3, AllMonths)), WordB >>)],
       [groups |-> 2, re |-> Cat(<< WordB, Grp(1, Day), Opt(Ordinal), Ws,
                                   Opt(Grp(2, AllMonths)), WordB >>)] >>

time_patterns ==
    << [groups |-> 3, re |-> Cat(<< WordB, Grp(1, Day), Lit(<<":">>), Grp(2, Rep(Digits, 2, 2)),
                                   Ws, Grp(3, AmPm), WordB >>)],
       [groups |-> 3, re |-> Cat(<< WordB, Grp(1, Day), Ws, Rep({":", "."}, 1, 1), Ws,
                                   Grp(2, Rep(Digits, 2, 2)), Ws, Grp(3, AmPm), WordB >>)],
       [groups |-> 2, re |-> Cat(<< WordB, Grp(1, Day), Ws, Grp(2, AmPm), WordB >>)],
       [groups |-> 2, re |-> Cat(<< WordB, Grp(1, Day), Lit(<<":">>), Grp(2, Rep(Digits, 2, 2)),
                                   WordB >>)],
       [groups |-> 1, re |-> Cat(<< WordB,
                                   Grp(1, Alt(<< Lit(<<"m", "o", "r", "n", "i", "n", "g">>), Lit(<<"a", "f", "t", "e", "r", "n", "o", "o", "n">>),
                                                 Lit(<<"e", "v", "e", "n", "i", "n", "g">>), Lit(<<"t", "o", "n", "i", "g", "h", "t">>),
                                                 Lit(<<"n", "i", "g", "h", "t">>) >>)),
                                   WordB >>)] >>

fallback_patterns ==
    << [groups |-> 3, re |-> Cat(<< WordB, OptQualifier, Ws, Grp(1, Day), Lit(<<":">>),
                                   Grp(2, Rep(Digits, 2, 2)), Ws, Grp(3, AmPm), WordB >>)],
       [groups |-> 3, re |-> Cat(<< WordB, OptQualifier, Ws, Grp(1, Day), Ws,
                                   Rep({":", "."}, 1, 1), Ws, Grp(2, Rep(Digits, 2, 2)), Ws,
                                   Grp(3, AmPm), WordB >>)],
       [groups |-> 3, re |-> Cat(<< WordB, OptQualifier, Ws, Grp(1, Day), Lit(<<":">>),
                                   Grp(2, Rep(Digits, 2, 2)), Grp(3, AmPm), WordB >>)],
       [groups |-> 2, re |-> Cat(<< WordB, OptQualifier, Ws, Grp(1, Day), Grp(2, AmPm),
                                   WordB >>)],
       [groups |-> 3, re |-> Cat(<< WordB, OptQualifier, Ws, Grp(1, Day),
                                   Rep({":", "."}, 1, 1), Grp(2, Rep(Digits, 2, 2)),
                                   Opt(Ws), Grp(3, AmPm), WordB >>)] >>

\* for pat in patterns: match = re.search(pat, msg); if match: ... break
\* the groups of the first pattern, from the k-th on, that matches; <<>> if none does
RECURSIVE FirstSearchFrom(_, _, _)
FirstSearchFrom(patterns, msg, k) ==
    IF k > Len(patterns) THEN <<>>
    ELSE LET found == re_search(patterns[k], msg)
         IN  IF found = <<>> THEN FirstSearchFrom(patterns, msg, k + 1)
             ELSE <<found[1].caps>>

FirstSearch(patterns, msg) == FirstSearchFrom(patterns, msg, 1)

\* ---------------------------------------------------------------- fallback_time_extraction
\* ":".join(match.groups()[:2]) + (" " + match.group(3) if len(match.groups()) == 3 else "")
fallback_time_extraction(text) ==
    LET found == FirstSearch(fallback_patterns, lower(text))
    IN  IF found = <<>> THEN None
        ELSE join_colon(SubSeq(found[1], 1, 2))
                \o (IF Len(found[1]) = 3 THEN <<" ">> \o found[1][3] ELSE <<>>)

\* ---------------------------------------------------------------- datetime
DigitChars == <<"0","1","2","3","4","5","6","7","8","9">>

\* int(cs) for a sequence of decimal digits
RECURSIVE ToInt(_)
ToInt(cs) ==
    IF cs = <<>> THEN 0
    ELSE 10 * ToInt(SubSeq(cs, 1, Len(cs) - 1))
            + (CHOOSE d \in 0..9 : DigitChars[d + 1] = cs[Len(cs)])

\* str(n) for n >= 0
RECURSIVE ToStr(_)
ToStr(n) ==
    IF n < 10 THEN <<DigitChars[n + 1]>>
    ELSE ToStr(n \div 10) \o <<DigitChars[(n % 10) + 1]>>

\* %m and %d without the leading zero (a faulty variant)
UnpaddedDigits(n) == ToStr(n)

\* %m and %d of strftime: two digits
TwoDigits(n) == IF n < 10 THEN <<"0">> \o ToStr(n) ELSE ToStr(n)

IsLeap(y) == y % 4 = 0 /\ (y % 100 # 0 \/ y % 400 = 0)

DaysInMonth(y, m) ==
    IF m = 2 THEN (IF IsLeap(y) THEN 29 ELSE 28)
    ELSE IF m \in {4, 6, 9, 11} THEN 30
    ELSE 31

\* the format "%Y-%m-%d" as _strptime compiles it:
\* (?P<Y>\d\d\d\d)-(?P<m>1[0-2]|0[1-9]|[1-9])-(?P<d>3[0-1]|[1-2]\d|0[1-9]|[1-9]| [1-9])
NonZero == Digits \ {"0"}
strptime_format ==
    [groups |-> 3,
     re |-> Cat(<< Grp(1, Rep(Digits, 4, 4)), Lit(<<"-">>),
                  Grp(2, Alt(<< Cat(<< Lit(<<"1">>), Rep({"0", "1", "2"}, 1, 1) >>),
                                Cat(<< Lit(<<"0">>), Rep(NonZero, 1, 1) >>),
                                Rep(NonZero, 1, 1) >>)),
                  Lit(<<"-">>),
                  Grp(3, Alt(<< Cat(<< Lit(<<"3">>), Rep({"0", "1"}, 1, 1) >>),
                                Cat(<< Rep({"1", "2"}, 1, 1), Rep(Digits, 1, 1) >>),
                                Cat(<< Lit(<<"0">>), Rep(NonZero, 1, 1) >>),
                                Rep(NonZero, 1, 1),
                                Cat(<< Lit(<<" ">>), Rep(NonZero, 1, 1) >>) >>)) >>)]

NoDate == [y |-> 0, m |-> 0, d |-> 0]

\* datetime.datetime.strptime(str(wa_date), "%Y-%m-%d"); NoDate where it raises
\* ValueError (no match, unconverted data, year 0, day out of range for the month)
strptime(wa_date_str) ==
    LET found == re_match(strptime_format, wa_date_str)
    IN  IF found = <<>> \/ wa_date_str = None THEN NoDate
        ELSE IF found[1].pos # Len(wa_date_str) THEN NoDate
        ELSE LET y == ToInt(found[1].caps[1])
                 m == ToInt(found[1].caps[2])
                 d == ToInt(strip(found[1].caps[3]))
             IN  IF y < 1 \/ d > DaysInMonth(y, m) THEN NoDate
                 ELSE [y |-> y, m |-> m, d |-> d]

\* wa_dt.strftime("%Y-%m-%d"), as glibc formats it: %Y is not padded
strftime_ymd(dt) == ToStr(dt.y) \o <<"-">> \o TwoDigits(dt.m) \o <<"-">> \o TwoDigits(dt.d)

MonthNames ==
    << <<"J", "a", "n", "u", "a", "r", "y">>, <<"F", "e", "b", "r", "u", "a", "r", "y">>, <<"M", "a", "r", "c", "h">>, <<"A", "p", "r", "i", "l">>, <<"M", "a", "y">>, <<"J", "u", "n", "e">>, <<"J", "u", "l", "y">>, <<"A", "u", "g", "u", "s", "t">>,
       <<"S", "e", "p", "t", "e", "m", "b", "e", "r">>, <<"O", "c", "t", "o", "b", "e", "r">>, <<"N", "o", "v", "e", "m", "b", "e", "r">>, <<"D", "e", "c", "e", "m", "b", "e", "r">> >>

\* wa_dt.strftime("%B")
strftime_B(dt) == MonthNames[dt.m]

\* the day after, February taken as 28 days long in every year (a faulty variant)
plus_one_day_no_leap(dt) ==
    IF dt.d < (IF dt.m = 2 THEN 28 ELSE DaysInMonth(dt.y, dt.m)) THEN [dt EXCEPT !.d = dt.d + 1]
    ELSE IF dt.m < 12 THEN [y |-> dt.y, m |-> dt.m + 1, d |-> 1]
    ELSE IF dt.y < 9999 THEN [y |-> dt.y + 1, m |-> 1, d |-> 1]
    ELSE NoDate

\* wa_dt + datetime.timedelta(days=1); NoDate where it raises OverflowError (past datetime.MAXYEAR, 9999)
plus_one_day(dt) ==
    IF dt.d < DaysInMonth(dt.y, dt.m) THEN [dt EXCEPT !.d = dt.d + 1]
    ELSE IF dt.m < 12 THEN [y |-> dt.y, m |-> dt.m + 1, d |-> 1]
    ELSE IF dt.y < 9999 THEN [y |-> dt.y + 1, m |-> 1, d |-> 1]
    ELSE NoDate

\* ---------------------------------------------------------------- extract_datetime_info
\* lines 64-76: the date the first matching date pattern gives
PatternDate(msg, implied_month) ==
    LET found == FirstSearch(date_patterns, msg)
        parts == FilterNone(found[1])
    IN  IF found = <<>> THEN None
        ELSE IF Len(parts) = 1 THEN parts[1] \o <<" ">> \o implied_month
        ELSE IF Len(parts) = 2 THEN parts[1] \o <<" ">> \o parts[2]
        ELSE IF Len(parts) = 3 THEN parts[1] \o <<" ", "t", "o", " ">> \o parts[2] \o <<" ">> \o parts[3]
        ELSE join(parts)

\* lines 78-84: the time the first matching time pattern gives
PatternTime(msg) ==
    LET found == FirstSearch(time_patterns, msg)
        parts == FilterNone(found[1])
    IN  IF found = <<>> THEN None
        ELSE strip(IF Len(parts) >= 2
                   THEN join_colon(SubSeq(parts, 1, 2))
                            \o (IF Len(parts) = 3 THEN <<" ">> \o parts[3] ELSE <<>>)
                   ELSE parts[1])

\* lines 89-92: the relative-date override of ride_date (None where timedelta raises)
RelativeDate(msg, wa_dt, pattern_date) ==
    IF contains(msg, <<"t", "o", "d", "a", "y">>) THEN strftime_ymd(wa_dt)
    ELSE IF contains(msg, <<"t", "o", "m", "o", "r", "r", "o", "w">>) THEN
        (IF plus_one_day(wa_dt) = NoDate THEN None ELSE strftime_ymd(plus_one_day(wa_dt)))
    ELSE pattern_date

\* whether the call raises (OverflowError of wa_dt + timedelta(days=1))
Raises(msg, wa_dt) ==
    ~contains(msg, <<"t", "o", "d", "a", "y">>) /\ contains(msg, <<"t", "o", "m", "o", "r", "r", "o", "w">>) /\ plus_one_day(wa_dt) = NoDate

\* extract_datetime_info(message, wa_date) where datetime.today() is the date today
extract_datetime_info(msg_in, wa_date_in, today) ==
    LET msg == lower(msg_in)
        parsed == strptime(wa_date_in)
        wa_dt == IF parsed = NoDate THEN today ELSE parsed
        t == PatternTime(msg)
    IN  [ride_date |-> RelativeDate(msg, wa_dt, PatternDate(msg, strftime_B(wa_dt))),
         ride_time |-> IF Truthy(t) THEN t ELSE fallback_time_extraction(msg),
         raised |-> Raises(msg, wa_dt)]

\* ---------------------------------------------------------------- inputs
\* places.txt of the documented scenarios
ScenarioPlaces ==
    << <<"s", "t", "a", "t", "e", " ", "c", "o", "l", "l", "e", "g", "e", " ", "=", " ", "s", "c", " ", "=", " ", "h", "a", "p", "p", "y", " ", "v", "a", "l", "l", "e", "y", "\n">>,
       <<"p", "i", "t", "t", "s", "b", "u", "r", "g", "h", " ", "=", " ", "p", "g", "h", "\n">> >>

\* gazetteer files the pipeline is run with
PlaceFiles ==
    { ScenarioPlaces,
      << <<"S", "t", "a", "t", "e", " ", "C", "o", "l", "l", "e", "g", "e", "*", " ", "=", " ", "P", "G", "H", "\n">> >>,
      << <<"\n">>, <<"p", "i", "t", "t", "s", "b", "u", "r", "g", "h", " ", "=", " ", "p", "g", "h">> >> }

\* lines a places.txt is made of in SpecLoad
LinePool ==
    { <<"s", "t", "a", "t", "e", " ", "c", "o", "l", "l", "e", "g", "e", " ", "=", " ", "s", "c", " ", "=", " ", "h", "a", "p", "p", "y", " ", "v", "a", "l", "l", "e", "y", "\n">>,
      <<"p", "i", "t", "t", "s", "b", "u", "r", "g", "h", " ", "=", " ", "p", "g", "h", "\n">>,
      <<" ", "P", "G", "H", " ", "=", " ", "S", "c", " ", "\n">>,
      <<"\n">>,
      <<" ", " ">>,
      <<"=", " ", "p", "g", "h", "\n">> }

LoadFiles == UNION {[1..n -> LinePool] : n \in 0..MaxLines}

\* the words messages are made of
Vocabulary == { <<"f", "r", "o", "m">>, <<"t", "o">>, <<"x">>, <<"S", "C">>, <<"p", "g", "h", "!">> }

OfferMessage == <<"d", "r", "i", "v", "i", "n", "g", " ", "f", "r", "o", "m", " ", "S", "C", " ", "t", "o", " ", "P", "i", "t", "t", "s", "b", "u", "r", "g", "h", " ", "t", "o", "m", "o", "r", "r", "o", "w", " ", "a", "t", " ", "6", ":", "3", "0", "p", "m">>
SeekMessage == <<"a", "n", "y", "o", "n", "e", " ", "g", "o", "i", "n", "g", " ", "t", "o", " ", "p", "g", "h", " ", "t", "h", "i", "s", " ", "w", "e", "e", "k", "e", "n", "d", "?">>

\* the messages of SpecPair
Messages == {join(ws) : ws \in UNION {[1..n -> Vocabulary] : n \in 0..MaxWords}}

\* the messages of the log that Spec runs the three scripts on
LogMessages ==
    { OfferMessage,
      SeekMessage,
      <<"h", "e", "l", "l", "o", " ", "e", "v", "e", "r", "y", "o", "n", "e", ",", " ", "h", "a", "p", "p", "y", " ", "M", "o", "n", "d", "a", "y", "!">>,
      <<"O", "f", "f", "e", "r", "i", "n", "g", " ", "r", "i", "d", "e", " ", "f", "r", "o", "m", " ", "P", "i", "t", "t", "s", "b", "u", "r", "g", "h", " ", "t", "o", " ", "S", "t", "a", "t", "e", " ", "C", "o", "l", "l", "e", "g", "e", " ", "o", "n", " ", "5", "t", "h", " ", "M", "a", "r", "c", "h", ",", " ", "6", "p", "m">>,
      <<"n", "e", "e", "d", " ", "a", " ", "r", "i", "d", "e", " ", "t", "o", " ", "p", "g", "h", " ", "t", "o", "d", "a", "y">>,
      <<"S", "C", " ", "t", "o", " ", "P", "G", "H", " ", "t", "o", "m", "o", "r", "r", "o", "w", " ", "m", "o", "r", "n", "i", "n", "g", ",", " ", "h", "a", "v", "e", " ", "s", "p", "a", "c", "e">>,
      <<"x", " ", "S", "C", " ", "t", "o", " ", "P", "G", "H", " ", "o", "n", " ", "j", "a", "n", " ", "7", " ", "a", "t", "6", ".", "3", "0", "p", "m">>,
      <<"L", "o", "o", "k", "i", "n", "g", " ", "f", "o", "r", " ", "a", " ", "r", "i", "d", "e", " ", "f", "r", "o", "m", " ", "p", "g", "h", " ", "t", "o", " ", "h", "a", "p", "p", "y", " ", "v", "a", "l", "l", "e", "y", " ", "1", "0", "-", "1", "2", " ", "j", "u", "n">>,
      <<"t", "o", " ", "t", "o", " ", "P", "G", "H", " ", "t", "o", "n", "i", "g", "h", "t">>,
      <<"f", "r", "o", "m", " ", "x", " ", "t", "o", " ", "p", "g", "h", " ", "S", "C", ",", " ", "r", "i", "d", "e", " ", "a", "v", "a", "i", "l", "a", "b", "l", "e">>,
      <<"f", "r", "o", "m", " ", "h", "a", "p", "p", "y", " ", "v", "a", "l", "l", "e", "y", " ", "t", "o", " ", "s", "c">>,
      <<"w", "a", "n", "t", " ", "t", "o", " ", "j", "o", "i", "n", " ", "f", "r", "o", "m", " ", "S", "C", ",", " ", "g", "o", "i", "n", "g", " ", "t", "o", " ", "P", "i", "t", "t", "s", "b", "u", "r", "g", "h", " ", "2", "1", ":", "1", "5">> }

ScenarioDate == <<"2", "0", "2", "4", "-", "0", "3", "-", "0", "1">>

\* the phrases the messages of SpecIntent are made of
IntentPool ==
    { <<"O", "f", "f", "e", "r", "i", "n", "g">>, <<"A", "n", "y", "o", "n", "e", " ", "G", "o", "i", "n", "g">>, <<"n", "e", "e", "d", " ", "a", " ", "r", "i", "d", "e">>, <<"D", "r", "i", "v", "i", "n", "g", " ", "t", "o">>, <<"r", "i", "d", "e">>, <<"t", "o">>, <<"f", "r", "o", "m">>,
      <<"x">> }

IntentMessages ==
    {join(ws) : ws \in UNION {[1..n -> IntentPool] : n \in 0..MaxPhrases}}

\* the phrases the messages of SpecDate are made of
DatePool ==
    { <<"T", "o", "m", "o", "r", "r", "o", "w">>, <<"t", "o", "d", "a", "y">>, <<"o", "n", " ", "5", "t", "h", " ", "o", "f", " ", "M", "a", "r", "c", "h">>, <<"a", "t", "6", "p", "m">>, <<"1", "0", "-", "1", "2", " ", "j", "u", "n">>, <<"6", ":", "3", "0", "p", "m">>,
      <<"d", "e", "c", " ", "3", "r", "d">>, <<"t", "o", "n", "i", "g", "h", "t">> }

DateMessages ==
    {join(ws) : ws \in UNION {[1..n -> DatePool] : n \in 0..MaxPhrases}}

\* wa_date values of the rows of SpecDate
WaDates ==
    { ScenarioDate, <<"2", "0", "2", "4", "-", "0", "2", "-", "2", "8">>, <<"2", "0", "2", "3", "-", "2", "-", "2", "8">>, <<"2", "0", "2", "3", "-", "1", "2", "-", "3", "1">>, <<"9", "9", "9", "9", "-", "1", "2", "-", "3", "1">>, <<"0", "9", "9", "9", "-", "1", "2", "-", "3", "1">>,
      <<"2", "0", "2", "4", "-", "0", "2", "-", "3", "0">>, <<"n", "a", "n">> }

\* what datetime.today() may return
Todays == { [y |-> 2025, m |-> 6, d |-> 30], [y |-> 2026, m |-> 1, d |-> 15] }

\* ---------------------------------------------------------------- actions
\* one iteration of the for loop of load_places
LoadLine ==
    /\ pc = "load"
    /\ li < Len(lines)
    /\ place_map' = load_line(place_map, lines[li + 1])
    /\ li' = li + 1
    /\ UNCHANGED <<lines, pc, message, wa_date, pair, category, origin, destination,
                   ride_date, ride_time, ride_type>>

\* load_places returns place_map
LoadReturn ==
    /\ pc = "load"
    /\ li = Len(lines)
    /\ pc' = "classify"
    /\ UNCHANGED <<lines, li, place_map, message, wa_date, pair, category, origin,
                   destination, ride_date, ride_time, ride_type>>

\* the body of the for loop of classify_messages, for one row of a whatsapp_log.csv
\* whose messages are among msgs
ClassifyRow(msgs) ==
    /\ pc = "classify"
    /\ \E msg \in msgs :
        \E r \in classify_messages(msg, place_map) :
            /\ message' = msg
            /\ pair' = extract_first_pair(msg, place_map)
            /\ category' = r.category
            /\ origin' = r.origin
            /\ destination' = r.destination
    /\ wa_date' = ScenarioDate
    /\ pc' = "datetime"
    /\ UNCHANGED <<lines, li, place_map, ride_date, ride_time, ride_type>>

ClassifyMessage == ClassifyRow(LogMessages)

ClassifyVocabularyMessage == ClassifyRow(Messages)

\* the body of the for loop of extract_datetime_for_rides_only, for one row;
\* an exception of extract_datetime_info ends the script
ExtractDatetimeForRide ==
    /\ pc = "datetime"
    /\ \E today \in (IF strip(lower(category)) = RIDE /\ strptime(wa_date) = NoDate
                     THEN Todays ELSE {NoDate}) :
        LET r == IF strip(lower(category)) = RIDE
                 THEN extract_datetime_info(message, wa_date, today)
                 ELSE [ride_date |-> None, ride_time |-> None, raised |-> FALSE]
        IN  /\ ride_date' = r.ride_date
            /\ ride_time' = r.ride_time
            /\ pc' = IF r.raised THEN "raised" ELSE "ride_type"
    /\ UNCHANGED <<lines, li, place_map, message, wa_date, pair, category, origin,
                   destination, ride_type>>

\* the lambda that classify_ride_type_for_rides applies to one row
ClassifyRideTypeForRide ==
    /\ pc = "ride_type"
    /\ ride_type' = IF lower(category) = RIDE THEN classify_ride_type(message) ELSE <<>>
    /\ pc' = "done"
    /\ UNCHANGED <<lines, li, place_map, message, wa_date, pair, category, origin,
                   destination, ride_date, ride_time>>

InitRow ==
    /\ message = None
    /\ wa_date = None
    /\ pair = NoPair
    /\ category = None
    /\ origin = None
    /\ destination = None
    /\ ride_date = None
    /\ ride_time = None
    /\ ride_type = None

\* the three scripts one after the other on a row of the log
Init ==
    /\ lines \in PlaceFiles /\ li = 0 /\ place_map = <<>> /\ pc = "load"
    /\ InitRow

Next ==
    \/ LoadLine
    \/ LoadReturn
    \/ ClassifyMessage
    \/ ExtractDatetimeForRide
    \/ ClassifyRideTypeForRide

Spec == Init /\ [][Next]_vars

\* load_places alone, on every file of at most MaxLines lines of LinePool
InitLoad ==
    /\ lines \in LoadFiles /\ li = 0 /\ place_map = <<>> /\ pc = "load"
    /\ InitRow

NextLoad == LoadLine \/ LoadReturn

SpecLoad == InitLoad /\ [][NextLoad]_vars

\* classify_and_place.py alone, on every message of at most MaxWords words of Vocabulary
NextPair == LoadLine \/ LoadReturn \/ ClassifyVocabularyMessage

SpecPair == Init /\ [][NextPair]_vars

\* get_date_time.py alone, on a row of a classified log
InitDate ==
    /\ lines = <<>> /\ li = 0 /\ place_map = <<>>
    /\ pc = "datetime"
    /\ message \in DateMessages
    /\ wa_date \in WaDates
    /\ category \in {RIDE, GENERAL}
    /\ pair = NoPair /\ origin = None /\ destination = None
    /\ ride_date = None /\ ride_time = None /\ ride_type = None

NextDate == ExtractDatetimeForRide

SpecDate == InitDate /\ [][NextDate]_vars

\* offering_seeking.py alone, on a row of a classified log
InitIntent ==
    /\ lines = <<>> /\ li = 0 /\ place_map = <<>>
    /\ pc = "ride_type"
    /\ message \in IntentMessages
    /\ wa_date = None
    /\ category \in {RIDE, GENERAL}
    /\ pair = NoPair /\ origin = None /\ destination = None
    /\ ride_date = None /\ ride_time = None /\ ride_type = None

NextIntent == ClassifyRideTypeForRide

SpecIntent == InitIntent /\ [][NextIntent]_vars

\* classify_and_place.py alone, on the messages of the log, the messages of Vocabulary
\* and messages with runs of blanks, with one more places.txt of three one-name lines
RowFiles == PlaceFiles \cup { << <<"s", "c", "\n">>, <<"p", "g", "h", "\n">>, <<"x", "\n">> >> }

RowMessages ==
    Messages \cup LogMessages
        \cup { <<"h", "a", "p", "p", "y", " ", " ", "v", "a", "l", "l", "e", "y", " ", "t", "o", " ", "p", "g", "h">>, <<"g", "o", "i", "n", "g", " ", "t", "o", " ", " ", "H", "a", "p", "p", "y", " ", " ", " ", "V", "a", "l", "l", "e", "y">>, <<"S", "C", " ", " ", "p", "g", "h">> }

ClassifyAnyMessage == ClassifyRow(RowMessages)

InitRows ==
    /\ lines \in RowFiles /\ li = 0 /\ place_map = <<>> /\ pc = "load"
    /\ InitRow

NextRows == LoadLine \/ LoadReturn \/ ClassifyAnyMessage

SpecRows == InitRows /\ [][NextRows]_vars

\* ================================================================ claims
\* the row has been classified by classify_messages
Classified == pc \in {"datetime", "ride_type", "raised", "done"} /\ message # None

\* load_places has returned
Loaded == pc # "load"

\* the canonical names of the documented scenarios
StateCollege == <<"s", "t", "a", "t", "e", " ", "c", "o", "l", "l", "e", "g", "e">>
Pittsburgh == <<"p", "i", "t", "t", "s", "b", "u", "r", "g", "h">>

\* s is a synonym of the gazetteer
IsPlace(map, s) == \E i \in 1..Len(map) : map[i].key = s

\* a gazetteer of non-empty names in which the home base is no canonical name
SaneMap(map) ==
    \A i \in 1..Len(map) : map[i].key # <<>> /\ map[i].val # <<>> /\ map[i].val # HomeBase

\* the k tokens from the a-th (0-based) on, joined
Window(words, a, k) == join(slice(words, a, a + k))

\* no run of 1 to 3 tokens, other than runs inside the token positions span, is a place
NoOtherPlace(map, words, span) ==
    \A a \in 0..(Len(words) - 1), k \in 1..3 :
        (a + k <= Len(words) /\ ~((a..(a + k - 1)) \subseteq span))
            => ~IsPlace(map, Window(words, a, k))

\* -------- C1
\* C1 (as amended): with the gazetteer lines "state college = sc = happy valley" and
\* "pittsburgh = pgh", the three scripts run on "driving from SC to Pittsburgh tomorrow
\* at 6:30pm" with wa_date 2024-03-01 give category ride, origin "state college",
\* destination "pittsburgh", ride_date "2024-03-02", ride_time "6:30 pm" and ride_type
\* "unknown": the message holds no phrase of either keyword list.
C1_OfferScenario ==
    (lines = ScenarioPlaces /\ message = OfferMessage /\ pc = "done")
        => /\ category = RIDE
           /\ origin = StateCollege
           /\ destination = Pittsburgh
           /\ ride_date = <<"2", "0", "2", "4", "-", "0", "3", "-", "0", "2">>
           /\ ride_time = <<"6", ":", "3", "0", " ", "p", "m">>
           /\ ride_type = UNKNOWN

\* C1 as claimed: the same with ride_type "offering".
C1_OfferScenarioAsClaimed ==
    (lines = ScenarioPlaces /\ message = OfferMessage /\ pc = "done")
        => /\ category = RIDE
           /\ origin = StateCollege
           /\ destination = Pittsburgh
           /\ ride_date = <<"2", "0", "2", "4", "-", "0", "3", "-", "0", "2">>
           /\ ride_time = <<"6", ":", "3", "0", " ", "p", "m">>
           /\ ride_type = OFFERING

\* the three scripts have run on the message of C1 with the scenario gazetteer
C1_OfferScenarioDone ==
    /\ lines = ScenarioPlaces /\ message = OfferMessage /\ wa_date = ScenarioDate
    /\ pc = "done" /\ pair.cue = "from_to" /\ ride_type # None

\* -------- C2
\* C2: with the scenario gazetteer, "anyone going to pgh this weekend?" is classified
\* ride with origin "state college*" and destination "pittsburgh", in that order
\* whatever the order in which the found places are listed, and its ride_type is
\* "seeking".
C2_SeekScenario ==
    (lines = ScenarioPlaces /\ message = SeekMessage /\ pc = "done")
        => /\ category = RIDE
           /\ origin = HomeBase
           /\ destination = Pittsburgh
           /\ ride_type = SEEKING

\* -------- C3
\* C3: extract_first_pair returns (None, None) or a pair of two different names, on
\* every return path, for every gazetteer load_places produces.
C3_NoSelfPairing ==
    Classified =>
        \/ pair.origin = None /\ pair.destination = None
        \/ pair.origin # pair.destination

\* -------- C4
\* days from 0001-01-01 to dt, by the proleptic Gregorian calendar
DayNumber(dt) ==
    LET y == dt.y - 1
        before == [m \in 1..12 |->
                     IF m = 1 THEN 0
                     ELSE <<31, 59, 90, 120, 151, 181, 212, 243, 273, 304, 334>>[m - 1]
                            + (IF m > 2 /\ IsLeap(dt.y) THEN 1 ELSE 0)]
    IN  365 * y + (y \div 4) - (y \div 100) + (y \div 400) + before[dt.m] + dt.d

\* dt written YYYY-MM-DD
IsoDate(dt) ==
    LET y == ToStr(dt.y)
    IN  SubSeq(<<"0", "0", "0", "0">>, 1, 4 - Len(y)) \o y \o <<"-">> \o TwoDigits(dt.m)
            \o <<"-">> \o TwoDigits(dt.d)

\* the dates of the reference year and the year after
NearDates(dt) ==
    {c \in [y : {dt.y, dt.y + 1}, m : 1..12, d : 1..31] : c.d <= DaysInMonth(c.y, c.m)}

\* the day after dt, written YYYY-MM-DD
NextDayIso(dt) ==
    IsoDate(CHOOSE c \in NearDates(dt) : DayNumber(c) = DayNumber(dt) + 1)

\* extract_datetime_info was called on the row with a wa_date that strptime parses
\* and a message that contains "tomorrow"
C4_TomorrowCall ==
    /\ pc \in {"ride_type", "raised"}
    /\ strip(lower(category)) = RIDE
    /\ strptime(wa_date) # NoDate
    /\ contains(lower(message), <<"t", "o", "m", "o", "r", "r", "o", "w">>)

\* C4 (as amended): for every message that contains "tomorrow" and does not contain
\* "today", and every wa_date that strptime parses with a year from 1000 on,
\* extract_datetime_info returns as ride_date the day after wa_date written
\* YYYY-MM-DD, whatever date pattern matched; for wa_date 9999-12-31 it raises
\* OverflowError instead.
C4_TomorrowUnlessToday ==
    (C4_TomorrowCall /\ ~contains(lower(message), <<"t", "o", "d", "a", "y">>) /\ strptime(wa_date).y >= 1000)
        => IF strptime(wa_date) = [y |-> 9999, m |-> 12, d |-> 31]
           THEN pc = "raised"
           ELSE pc = "ride_type" /\ ride_date = NextDayIso(strptime(wa_date))

\* C4 as claimed: for every message that contains "tomorrow" and every wa_date that
\* strptime parses, extract_datetime_info returns as ride_date the day after wa_date
\* written YYYY-MM-DD, whatever else the message contains.
C4_TomorrowAlways ==
    (C4_TomorrowCall /\ pc = "ride_type")
        => ride_date = NextDayIso(strptime(wa_date))

\* a message with "tomorrow", without "today" and with a date that the first date
\* pattern matches, on the last day of a year
C4_TomorrowOverPattern ==
    /\ C4_TomorrowCall
    /\ ~contains(lower(message), <<"t", "o", "d", "a", "y">>)
    /\ contains(lower(message), <<"5", "t", "h", " ", "o", "f", " ", "m", "a", "r", "c", "h">>)
    /\ wa_date = <<"2", "0", "2", "3", "-", "1", "2", "-", "3", "1">>
    /\ ride_date = <<"2", "0", "2", "4", "-", "0", "1", "-", "0", "1">>

\* -------- C5
\* the lines on which token occurs as one of the =-separated tokens
LinesWith(token) ==
    {j \in 1..Len(lines) : \E t \in 1..Len(Parts(lines[j])) : Parts(lines[j])[t] = token}

\* C5 (as amended): after load_places, for every line and every =-separated token of
\* it, the trimmed, lowercased token maps to the trimmed, lowercased first token of
\* the last line on which that token occurs.
C5_LastLineWins ==
    (Loaded /\ li = Len(lines)) =>
        \A j \in 1..Len(lines) : \A t \in 1..Len(Parts(lines[j])) :
            LET token == Parts(lines[j])[t]
                last == CHOOSE k \in LinesWith(token) : \A n \in LinesWith(token) : n <= k
            IN  Lookup(place_map, token) = Parts(lines[last])[1]

\* C5 as claimed: after load_places, for every line and every =-separated token of it,
\* the trimmed, lowercased token maps to the trimmed, lowercased first token of that
\* same line.
C5_EveryLineWins ==
    (Loaded /\ li = Len(lines)) =>
        \A j \in 1..Len(lines) : \A t \in 1..Len(Parts(lines[j])) :
            Lookup(place_map, Parts(lines[j])[t]) = Parts(lines[j])[1]

\* a loaded file in which a token occurs on two lines with different first tokens
C5_TokenOnTwoLines ==
    /\ Loaded /\ li = Len(lines)
    /\ \E j, k \in 1..Len(lines) :
         /\ j < k
         /\ Parts(lines[j])[1] # Parts(lines[k])[1]
         /\ \E t \in 1..Len(Parts(lines[j])) : k \in LinesWith(Parts(lines[j])[t])

\* -------- C6
\* a line with a non-empty first token
HasCanonical(line) == Parts(line)[1] # <<>>

\* C6: load_places skips empty lines and lines with an empty first token: the map is
\* the map of the file without them, and "" is neither a key nor a canonical name.
C6_MalformedSkipped ==
    (Loaded /\ li = Len(lines)) =>
        /\ place_map = load_places(SelectSeq(lines, HasCanonical))
        /\ \A i \in 1..Len(place_map) : place_map[i].key # <<>> /\ place_map[i].val # <<>>

\* -------- C7
\* C7: classify_ride_type returns "offering" for every message with an offering phrase
\* and a seeking phrase, "seeking" only when a seeking phrase and no offering phrase
\* occurs, and "unknown" only when no phrase of either list occurs.
C7_IntentPriority ==
    (pc = "done" /\ lower(category) = RIDE) =>
        LET offer == \E i \in 1..Len(offer_keywords) : contains(lower(message), offer_keywords[i])
            seek == \E i \in 1..Len(seek_keywords) : contains(lower(message), seek_keywords[i])
        IN  /\ (offer /\ seek) => ride_type = OFFERING
            /\ ride_type = SEEKING => (~offer /\ seek)
            /\ ride_type = UNKNOWN => (~offer /\ ~seek)
            /\ ride_type \in {OFFERING, SEEKING, UNKNOWN}

\* a ride message with the offering phrase "offering" and the seeking phrase
\* "anyone going" has been classified
C7_BothPhrases ==
    /\ pc = "done" /\ lower(category) = RIDE
    /\ contains(lower(message), <<"o", "f", "f", "e", "r", "i", "n", "g">>)
    /\ contains(lower(message), <<"a", "n", "y", "o", "n", "e", " ", "g", "o", "i", "n", "g">>)
    /\ ride_type = OFFERING

\* -------- C8
\* C8: in a message without "from" whose only gazetteer place D (1 to 3 tokens)
\* follows a token "to", wherever that "to" stands, extract_first_pair returns
\* ("state college*", canonical(D)).
C8_BareTo ==
    (Classified /\ SaneMap(place_map)) =>
        LET words == Words(message)
        IN  \A i \in 0..(Len(words) - 1), k \in 1..3 :
                ( /\ \A j \in 1..Len(words) : words[j] # FROM
                  /\ words[i + 1] = TO
                  /\ i + k < Len(words)
                  /\ IsPlace(place_map, Window(words, i + 1, k))
                  /\ NoOtherPlace(place_map, words, (i + 1)..(i + k)) )
                => /\ pair.origin = HomeBase
                   /\ pair.destination = Lookup(place_map, Window(words, i + 1, k))

\* -------- C9
\* C9: in a message without "from" and with one "to", where the tokens before "to"
\* are a place A, the tokens after it a place B of another canonical name, and no
\* other token is a place, extract_first_pair returns (canonical(A), canonical(B)),
\* wherever A stands.
C9_Connector ==
    (Classified /\ SaneMap(place_map)) =>
        LET words == Words(message)
        IN  \A t \in 0..(Len(words) - 1), k \in 1..3, m \in 1..3 :
                ( /\ \A j \in 1..Len(words) : words[j] # FROM
                  /\ \A j \in 1..Len(words) : (words[j] = TO) <=> (j = t + 1)
                  /\ t - k >= 0
                  /\ t + m < Len(words)
                  /\ IsPlace(place_map, Window(words, t - k, k))
                  /\ IsPlace(place_map, Window(words, t + 1, m))
                  /\ Lookup(place_map, Window(words, t - k, k))
                        # Lookup(place_map, Window(words, t + 1, m))
                  /\ NoOtherPlace(place_map, words, ((t - k)..(t - 1)) \cup ((t + 1)..(t + m))) )
                => /\ pair.origin = Lookup(place_map, Window(words, t - k, k))
                   /\ pair.destination = Lookup(place_map, Window(words, t + 1, m))

\* -------- C10
\* C10: a pair returned from a cue "from" at token i, "to" at token i+2 has as origin
\* the canonical name of a place matched in token i+1, and as destination that of a
\* place matched in the tokens after the "to"; the origin is never taken from tokens
\* after the "to".
C10_FromToDirection ==
    (Classified /\ SaneMap(place_map) /\ pair.cue = "from_to") =>
        LET words == Words(message)
            i == pair.at
        IN  /\ \E n \in 1..Len(place_map) :
                  /\ word_search(place_map[n].key, words[i + 2])
                  /\ place_map[n].val = pair.origin
            /\ \E n \in 1..Len(place_map), k \in 1..3 :
                  /\ i + 3 + k <= Len(words)
                  /\ word_search(place_map[n].key, Window(words, i + 3, k))
                  /\ place_map[n].val = pair.destination

\* -------- C11
\* a gazetteer of non-empty names that does not hold the home base
C11_Gazetteer ==
    /\ SaneMap(place_map)
    /\ \A n \in 1..Len(place_map) : place_map[n].key # HomeBase

\* name is the canonical name of a synonym that stands, as whole words, in the
\* normalized tokens of the message
C11_FoundInText(name) ==
    \E n \in 1..Len(place_map) :
        /\ place_map[n].val = name
        /\ word_search(place_map[n].key, join(Words(message)))

\* the home base may stand in the row: the text has the word "to" and not the word
\* "from", or extract_first_pair returned it
C11_HomeBaseAllowed ==
    \/ word_search(TO, normalize_text(message)) /\ ~word_search(FROM, normalize_text(message))
    \/ pair.origin = HomeBase

\* v is a canonical name found in the text, or the home base where it is allowed
C11_PlaceOfRow(v) ==
    \/ C11_FoundInText(v)
    \/ v = HomeBase /\ C11_HomeBaseAllowed

\* C11: for every message and every gazetteer of non-empty names without
\* "state college*", the row classify_messages appends has category general with
\* origin and destination both absent, or category ride with origin and destination
\* both present, different, and each a canonical name found in the text or the home
\* base, the home base only when the text has the word "to" and not the word "from"
\* or when extract_first_pair returned it.
C11_RowShape ==
    (Classified /\ C11_Gazetteer) =>
        /\ category \in {RIDE, GENERAL}
        /\ category = GENERAL => (origin = None /\ destination = None)
        /\ category = RIDE =>
              /\ Truthy(origin) /\ Truthy(destination)
              /\ origin # destination
              /\ C11_PlaceOfRow(origin) /\ C11_PlaceOfRow(destination)

\* a ride row filled from the found places, with the home base as destination, for
\* the message "anyone going to pgh this weekend?"
C11_FallbackRow ==
    /\ Classified /\ C11_Gazetteer
    /\ message = SeekMessage
    /\ category = RIDE
    /\ pair.origin = None
    /\ origin = Pittsburgh /\ destination = HomeBase

====
